---- MODULE Spec2Model ----
(***************************************************************************)
(* A model of biedronka.py: the receipt pipeline that plans which remote   *)
(* PDF receipts to download, parses their OCR text, groups the receipts by *)
(* month and appends them to an Excel ledger (openpyxl workbook).          *)
(*                                                                         *)
(* Strings that the program compares, splits or matches are sequences of   *)
(* one-character strings, so that Python's str ordering, str.split and the *)
(* regular expressions act on the characters, as in the code.              *)
(***************************************************************************)
EXTENDS Integers, Sequences, FiniteSets, TLC

VARIABLES
    pc,         \* position of the running script / of the function under test
    wb,         \* ExcelDataDumper.wb: the in-memory workbook (a sequence of sheets)
    disk,       \* the saved workbook file at path_to_excel; <<>> when there is no file
    remote,     \* the remote listing (search_valid_files), a sequence of files
    local,      \* the file names found under file_storage_path
    cutoff,     \* latest_grocery_date_excel, the datetime handed to download
    plan,       \* items_to_download, the result of validate_to_download
    texts,      \* data_strings, the OCR text of every downloaded document
    parsed,     \* the list returned by parse_data_from_pdf
    bucket,     \* the dict returned by assign_to_months / handed to insert_data
    outcome,    \* how the last call or run ended: "none", "ok" or the exception raised
    saveFailed, \* TRUE when a save of the last insert_data hit PermissionError
    prevWb,     \* the workbook as it was when the last insert_data was entered
    runs        \* number of runs started so far

vars == <<pc, wb, disk, remote, local, cutoff, plan, texts, parsed, bucket,
          outcome, saveFailed, prevWb, runs>>

-----------------------------------------------------------------------------
(* Bounds of the model. *)

\* longest remote listing handed to validate_to_download
MaxListing == 4
\* most documents in one batch of OCR texts
MaxBatch == 2
\* most runs of the script (or insert_data calls) in one behaviour
MaxRuns == 2

-----------------------------------------------------------------------------
(* Characters and strings. *)

Digits == <<"0", "1", "2", "3", "4", "5", "6", "7", "8", "9">>

DigitChar(n) == Digits[n + 1]

IsDigit(c) == \E n \in 0..9 : Digits[n + 1] = c

DigitVal(c) == CHOOSE n \in 0..9 : Digits[n + 1] = c

\* ord(c) for the characters a date string or a sheet title is made of
Ord(c) ==
    IF c = "-" THEN 45
    ELSE IF c = "." THEN 46
    ELSE IF c = "/" THEN 47
    ELSE 48 + DigitVal(c)

\* Python's a < b on str: the first differing character decides, a proper
\* prefix is smaller
RECURSIVE StrLess(_, _)
StrLess(a, b) ==
    IF a = <<>> THEN b # <<>>
    ELSE IF b = <<>> THEN FALSE
    ELSE IF Head(a) = Head(b) THEN StrLess(Tail(a), Tail(b))
    ELSE Ord(Head(a)) < Ord(Head(b))

\* int(s) for a string of digits
RECURSIVE Num(_)
Num(s) == IF s = <<>> THEN 0 ELSE 10 * Num(SubSeq(s, 1, Len(s) - 1)) + DigitVal(s[Len(s)])

Two(n) == <<DigitChar(n \div 10), DigitChar(n % 10)>>

Four(n) == Two(n \div 100) \o Two(n % 100)

\* the text "dd<s1>mm<s2>yyyy" as it stands in a receipt
DateStr(d, s1, m, s2, y) == Two(d) \o <<s1>> \o Two(m) \o <<s2>> \o Four(y)

\* datetime values are <<year, month, day>>; every datetime the program
\* compares has its time at 00:00
DtLess(a, b) ==
    \/ a[1] < b[1]
    \/ a[1] = b[1] /\ a[2] < b[2]
    \/ a[1] = b[1] /\ a[2] = b[2] /\ a[3] < b[3]

DtLeq(a, b) == a = b \/ DtLess(a, b)

-----------------------------------------------------------------------------
(* GoogleDrive / LocalFileHandler: planning the download. *)

\* A file name: prefix is name[:6], its first six characters, and rest is what
\* follows them, cut into pieces so that ".pdf" and ".txt" are pieces of their
\* own wherever they occur ("240310_receipt.pdf" is the prefix 240310 and
\* the pieces "_receipt", ".pdf").
FileName(y, m, d, stem, ext) ==
    [prefix |-> Two(y % 100) \o Two(m) \o Two(d), rest |-> <<stem, ext>>]

\* datetime.strptime('20' + name[:6], "%Y%m%d")
FileDate(name) ==
    LET date_str == <<"2", "0">> \o name.prefix
    IN  <<Num(SubSeq(date_str, 1, 4)), Num(SubSeq(date_str, 5, 6)), Num(SubSeq(date_str, 7, 8))>>

\* name.replace('.pdf', '.txt'): every occurrence is replaced
TxtName(name) ==
    [name EXCEPT !.rest = [i \in 1..Len(@) |-> IF @[i] = ".pdf" THEN ".txt" ELSE @[i]]]

\* file_name.endswith(file_format)
EndsWith(name, file_format) == name.rest # <<>> /\ name.rest[Len(name.rest)] = file_format

\* the name create_txt gives the text of a downloaded file:
\* pdf_file_path.split('\\')[-1].split('.')[0] + '.txt'
StagedTxtName(name) ==
    LET dots == {i \in 1..Len(name.rest) : name.rest[i] \in {".pdf", ".txt"}}
        first == IF dots = {} THEN Len(name.rest) + 1
                 ELSE CHOOSE i \in dots : \A j \in dots : i <= j
    IN  [name EXCEPT !.rest = SubSeq(@, 1, first - 1) \o <<".txt">>]

is_in_local_dir(google_drive_file, files) == TxtName(google_drive_file.name) \in files

find_files_missing_locally(google_drive_files, files) ==
    SelectSeq(google_drive_files, LAMBDA item : ~is_in_local_dir(item, files))

\* compare_dates with >= where the code has >
compare_dates_ge(items, latest_grocery_date_excel) ==
    SelectSeq(items, LAMBDA item : DtLeq(latest_grocery_date_excel, FileDate(item.name)))

compare_dates(items, latest_grocery_date_excel) ==
    SelectSeq(items, LAMBDA item : DtLess(latest_grocery_date_excel, FileDate(item.name)))

validate_to_download(biedronka_pdfs, latest_grocery_date_excel, files) ==
    find_files_missing_locally(compare_dates(biedronka_pdfs, latest_grocery_date_excel), files)

-----------------------------------------------------------------------------
(* DataParser. *)

\* A document text is reduced to what the two regular expressions find in it:
\*   date   group 1 of the first DATE_PATTERN match (the date without its
\*          time), or <<>> when DATE_PATTERN matches nowhere;
\*   items  the RECORD_PATTERN matches, in text order;
\*   src    the remote file the text was read from (carried along so that a
\*          ledger block can be traced back to its document).
Text(date, items, src) == [date |-> date, items |-> items, src |-> src]

\* date_pattern.search(doc) is None
NoDateMatch(doc) == doc.date = <<>>

RECURSIVE parse_loop(_, _)
parse_loop(documents, all_doc_data) ==
    IF documents = <<>> THEN [err |-> "none", val |-> all_doc_data]
    ELSE LET doc == Head(documents)
         IN  IF NoDateMatch(doc)
             THEN [err |-> "AttributeError", val |-> <<>>]   \* None.group(1)
             ELSE parse_loop(Tail(documents),
                             Append(all_doc_data,
                                    [date |-> doc.date, items |-> doc.items, src |-> doc.src]))

parse_data_from_pdf(documents) == parse_loop(documents, <<>>)

\* position of the first '.' of s, 0 when s holds none
FirstDot(s) ==
    IF \E i \in 1..Len(s) : s[i] = "."
    THEN CHOOSE i \in 1..Len(s) : s[i] = "." /\ \A j \in 1..(i - 1) : s[j] # "."
    ELSE 0

\* doc[0].split(' ')[0].split('.', 1)[1]; a date holds no blank, so the first
\* split returns it whole
month_year_of(date) == SubSeq(date, FirstDot(date) + 1, Len(date))

\* dates_d is a function from keys to lists; <<>> is the empty dict
RECURSIVE assign_loop(_, _)
assign_loop(data, dates_d) ==
    IF data = <<>> THEN [err |-> "none", val |-> dates_d]
    ELSE LET doc == Head(data)
         IN  IF FirstDot(doc.date) = 0
             THEN [err |-> "IndexError", val |-> <<>>]   \* split(...)[1] of a one-element list
             ELSE LET month_year == month_year_of(doc.date)
                      shoppings_in_month ==
                          IF month_year \in DOMAIN dates_d THEN dates_d[month_year] ELSE <<>>
                  IN  assign_loop(Tail(data),
                                  [k \in (DOMAIN dates_d) \cup {month_year} |->
                                      IF k = month_year
                                      THEN Append(shoppings_in_month, doc)
                                      ELSE dates_d[k]])

assign_to_months(data) == assign_loop(data, <<>>)

\* parse_data: parse_data_from_pdf, then assign_to_months
parse_data(docs) ==
    LET data == parse_data_from_pdf(docs)
    IN  IF data.err # "none" THEN data ELSE assign_to_months(data.val)

-----------------------------------------------------------------------------
(* The workbook (openpyxl) as ExcelDataDumper uses it. *)

\* A worksheet is [title, rows]: rows[i] is row i, and Len(rows) is the
\* sheet's _current_row, the row ws.append wrote last. A row that holds no
\* cell (ws.append([])) is a blank row. fmt is the set of columns of the row
\* that carry CURRENCY_FORMAT; s and e are the start_row and end_row used by
\* the formulas of a summary row; src is the document a date row stems from.
Row(k, date, item, fmt, s, e, src) ==
    [k |-> k, date |-> date, item |-> item, fmt |-> fmt, s |-> s, e |-> e, src |-> src]

BlankRow == Row("blank", <<>>, 0, {}, 0, 0, 0)              \* []
DateRow(date, src) == Row("date", date, 0, {}, 0, 0, src)   \* [date]
HeaderRow == Row("header", <<>>, 0, {}, 0, 0, 0)            \* ['Nazwa', 'Cena', 'NAME1', 'NAME2']
ItemRow(item) == Row("item", <<>>, item, {}, 0, 0, 0)       \* [item_name, float(item_price), None, None]
SumRow(s, e) == Row("sum", <<>>, 0, {}, s, e, 0)            \* ['Suma', '=SUM(B{s}:B{e})', ...]

HasCells(row) == row.k # "blank"

\* Worksheet.max_row: the largest row index among the cells, 1 without cells
max_row(ws) ==
    LET used == {i \in 1..Len(ws.rows) : HasCells(ws.rows[i])}
    IN  IF used = {} THEN 1 ELSE CHOOSE i \in used : \A j \in used : j <= i

\* Worksheet.append: row_idx = self._current_row + 1; the cells of the
\* iterable are put in that row; self._current_row = row_idx
ws_append(ws, row) == [ws EXCEPT !.rows = Append(@, row)]

\* openpyxl.Workbook(): one empty sheet titled "Sheet"
NewWorkbook == <<[title |-> <<"S", "h", "e", "e", "t">>, rows |-> <<>>]>>

\* What wb.save writes of a sheet: the writer emits the rows that hold cells,
\* so the rows after the last cell are not in the file.
Written(book) ==
    [i \in 1..Len(book) |->
        [book[i] EXCEPT !.rows =
            IF \E r \in 1..Len(@) : HasCells(@[r]) THEN SubSeq(@, 1, max_row(book[i])) ELSE <<>>]]

\* openpyxl.load_workbook: the cells of the file; the reader sets
\* _current_row = max_row when the sheet holds cells
Load(file) == file

\* ExcelDataDumper.__init__
open_workbook(file) ==
    IF file = <<>>
    THEN [wb |-> NewWorkbook, disk |-> Written(NewWorkbook)]   \* FileNotFoundError
    ELSE [wb |-> Load(file), disk |-> file]

\* save_excel_workbook: PermissionError is caught and a message printed; the
\* file then keeps what it held
save_excel_workbook(book, file, locked) == IF locked THEN file ELSE Written(book)

sheetnames(book) == {book[i].title : i \in 1..Len(book)}

\* wb[month]: the sheet with that title
SheetIndex(book, title) == CHOOSE i \in 1..Len(book) : book[i].title = title

\* the title setter refuses the characters \ * ? : / [ ]
InvalidTitle(title) == \E i \in 1..Len(title) : title[i] = "/"

\* sorted(data_by_month.keys()): the keys in str order
RECURSIVE SortedKeys(_)
SortedKeys(S) ==
    IF S = {} THEN <<>>
    ELSE LET least == CHOOSE k \in S : \A o \in S \ {k} : StrLess(k, o)
         IN  <<least>> \o SortedKeys(S \ {least})

-----------------------------------------------------------------------------
(* ExcelDataDumper. *)

\* re.match(DATE_FORMAT_PATTERN, str(row[0])): dd.mm.yyyy at the start of the
\* first cell. The first cell of a header row ('Nazwa'), of a summary row
\* ('Suma') and of an item row (a product name) holds no date.
MatchesDateFormat(row) ==
    /\ row.k = "date"
    /\ Len(row.date) >= 10
    /\ row.date[3] = "." /\ row.date[6] = "."
    /\ \A i \in {1, 2, 4, 5, 7, 8, 9, 10} : IsDigit(row.date[i])
    /\ Num(SubSeq(row.date, 1, 2)) \in 1..31
    /\ Num(SubSeq(row.date, 4, 5)) \in 1..12
    /\ Num(SubSeq(row.date, 7, 8)) \in {19, 20}

\* datetime.strptime(match[0], "%d.%m.%Y")
ParseLedgerDate(date) ==
    <<Num(SubSeq(date, 7, 10)), Num(SubSeq(date, 4, 5)), Num(SubSeq(date, 1, 2))>>

\* datetime(1800, 1, 1, 0, 0)
Epoch == <<1800, 1, 1>>

RECURSIVE scan_rows(_, _)
scan_rows(rows, latest_grocery) ==
    IF rows = <<>> THEN latest_grocery
    ELSE LET row == Head(rows)
         IN  IF ~HasCells(row) THEN scan_rows(Tail(rows), latest_grocery)
             ELSE IF MatchesDateFormat(row) /\ DtLess(latest_grocery, ParseLedgerDate(row.date))
             THEN scan_rows(Tail(rows), ParseLedgerDate(row.date))
             ELSE scan_rows(Tail(rows), latest_grocery)

\* latest_grocery_date: the dates of the last sheet of the workbook only
latest_grocery_date(book) == scan_rows(book[Len(book)].rows, Epoch)

\* first_sheet_rename, without its save
first_sheet_rename(book, data_keys) ==
    IF Len(book) = 1
    THEN IF data_keys = <<>> THEN [err |-> "IndexError", wb |-> book]
         ELSE IF InvalidTitle(data_keys[1]) THEN [err |-> "ValueError", wb |-> book]
         ELSE [err |-> "none", wb |-> [book EXCEPT ![1].title = data_keys[1]]]
    ELSE [err |-> "none", wb |-> book]

\* create_sheets, without its save
RECURSIVE create_sheets(_, _)
create_sheets(book, data_keys) ==
    IF data_keys = <<>> THEN [err |-> "none", wb |-> book]
    ELSE LET key == Head(data_keys)
         IN  IF key \in sheetnames(book) THEN create_sheets(book, Tail(data_keys))
             ELSE IF InvalidTitle(key) THEN [err |-> "ValueError", wb |-> book]
             ELSE create_sheets(Append(book, [title |-> key, rows |-> <<>>]), Tail(data_keys))

\* set_number_format: the cells of row ws.max_row in the given columns
set_number_format(ws, columns) == [ws EXCEPT !.rows[max_row(ws)].fmt = @ \cup columns]

\* list < list of Python, on the lists of records of two documents
RECURSIVE ListLess(_, _)
ListLess(a, b) ==
    IF a = <<>> THEN b # <<>>
    ELSE IF b = <<>> THEN FALSE
    ELSE IF Head(a) = Head(b) THEN ListLess(Tail(a), Tail(b))
    ELSE Head(a) < Head(b)

\* (date, grocery) < (date, grocery)
DocLess(a, b) == StrLess(a.date, b.date) \/ (a.date = b.date /\ ListLess(a.items, b.items))

\* sorted(data): stable, ascending
RECURSIVE sorted_docs(_)
sorted_docs(data) ==
    IF data = <<>> THEN <<>>
    ELSE LET front == sorted_docs(SubSeq(data, 1, Len(data) - 1))
             x == data[Len(data)]
             keep == {i \in 1..Len(front) : ~DocLess(x, front[i])}
             n == IF keep = {} THEN 0 ELSE CHOOSE i \in keep : \A j \in keep : j <= i
         IN  SubSeq(front, 1, n) \o <<x>> \o SubSeq(front, n + 1, Len(front))

RECURSIVE append_items(_, _)
append_items(ws, grocery) ==
    IF grocery = <<>> THEN ws
    ELSE append_items(set_number_format(ws_append(ws, ItemRow(Head(grocery))), {2}),
                      Tail(grocery))

\* one pass of the inner loop of insert_data: the block of one document
write_block(ws, doc) ==
    LET w1 == ws_append(ws, DateRow(doc.date, doc.src))
        w2 == ws_append(w1, HeaderRow)
        start_row == max_row(w2) + 1
        w3 == append_items(w2, doc.items)
        end_row == max_row(w3)
        w4 == set_number_format(ws_append(w3, SumRow(start_row, end_row)), {2, 3, 4})
    IN  ws_append(ws_append(w4, BlankRow), BlankRow)

RECURSIVE write_blocks(_, _)
write_blocks(ws, data) ==
    IF data = <<>> THEN ws ELSE write_blocks(write_block(ws, Head(data)), Tail(data))

\* write_month starting the new rows in row max_row, the last row that holds
\* cells, where the code starts in the row after it
write_month_from_max_row(ws, data) ==
    write_blocks([ws EXCEPT !.rows = SubSeq(@, 1, max_row(ws) - 1)], sorted_docs(data))

\* one pass of the outer loop of insert_data: the sheet of one month
write_month(ws, data) ==
    LET spaced == IF max_row(ws) > 4 THEN ws_append(ws_append(ws, BlankRow), BlankRow) ELSE ws
    IN  write_blocks(spaced, sorted_docs(data))

RECURSIVE write_months(_, _, _)
write_months(book, months, data_by_month) ==
    IF months = <<>> THEN book
    ELSE LET month == Head(months)
             i == SheetIndex(book, month)
         IN  write_months([book EXCEPT ![i] = write_month(@, data_by_month[month])],
                          Tail(months), data_by_month)

\* insert_data on workbook book with the file holding `file`; locked says
\* whether another process holds the file while the call runs. The result is
\* the exception raised ("none": the call returned), the workbook and the file.
insert_data(book, file, data_by_month, locked) ==
    LET data_keys == SortedKeys(DOMAIN data_by_month)
        renamed == first_sheet_rename(book, data_keys)
        file1 == save_excel_workbook(renamed.wb, file, locked)
        created == create_sheets(renamed.wb, data_keys)
        file2 == save_excel_workbook(created.wb, file1, locked)
        filled == write_months(created.wb, data_keys, data_by_month)
    IN  IF renamed.err # "none" THEN [err |-> renamed.err, wb |-> renamed.wb, disk |-> file]
        ELSE IF created.err # "none" THEN [err |-> created.err, wb |-> created.wb, disk |-> file1]
        ELSE [err |-> "none", wb |-> filled,
              disk |-> save_excel_workbook(filled, file2, locked)]

-----------------------------------------------------------------------------
(* The inputs the model draws from. *)

\* the sequences over S of length at most n, and those without a repetition
SeqsUpTo(S, n) == UNION {[1..k -> S] : k \in 0..n}

DistinctSeqsUpTo(S, n) ==
    {q \in SeqsUpTo(S, n) : \A i, j \in 1..Len(q) : q[i] = q[j] => i = j}

\* a remote PDF: the id and name of the listing, and the text OCR reads from it
RemoteFile(id, name, date, items) ==
    [id |-> id, name |-> name, text |-> Text(date, items, id)]

\* The receipts of the script's runs: December 2024 and January 2025, one of
\* them without a record match, and one document in which no date is found.
PipelineFiles ==
    { RemoteFile(1, FileName(2024, 12, 20, "_a", ".pdf"), DateStr(20, ".", 12, ".", 2024), <<1>>),
      RemoteFile(2, FileName(2025, 1, 5, "_b", ".pdf"), DateStr(5, ".", 1, ".", 2025), <<1, 2>>),
      RemoteFile(3, FileName(2025, 1, 10, "_c", ".pdf"), DateStr(10, ".", 1, ".", 2025), <<>>),
      RemoteFile(4, FileName(2025, 1, 12, "_d", ".pdf"), <<>>, <<1>>) }

\* The listings, cutoffs and local names validate_to_download is tried on.
PlanFiles ==
    { RemoteFile(1, FileName(2024, 3, 10, "_receipt", ".pdf"), <<>>, <<>>),
      RemoteFile(2, FileName(2024, 3, 1, "_receipt", ".pdf"), <<>>, <<>>),
      RemoteFile(3, FileName(2024, 3, 15, "_receipt", ".pdf"), <<>>, <<>>),
      RemoteFile(4, FileName(2023, 12, 31, "_receipt", ".pdf"), <<>>, <<>>),
      RemoteFile(5, FileName(2024, 3, 16, "_other", ".pdf"), <<>>, <<>>) }

PlanCutoffs == {Epoch, <<2024, 3, 1>>, <<2024, 3, 10>>, <<2024, 3, 15>>}

PlanLocalNames ==
    { FileName(2024, 3, 10, "_receipt", ".txt"),
      FileName(2024, 3, 15, "_receipt", ".pdf"),
      FileName(2024, 3, 16, "_other", ".txt") }

\* The document texts the parser is tried on: every pair of separators the
\* date grammar allows, two days, two months, and a text without a date.
Separators == {".", "/", "-"}

ParseTexts ==
    {Text(DateStr(d, s1, m, s2, 2024), <<1>>, 0) :
        d \in {5, 15}, m \in {3, 4}, s1 \in Separators, s2 \in Separators}
    \cup {Text(<<>>, <<1>>, 0)}

\* The parsed documents insert_data is tried on: no, one and two records, two
\* days of one month, two earlier months, and a key that is no valid sheet title.
LedgerDocs ==
    { [date |-> DateStr(5, ".", 3, ".", 2024), items |-> <<>>, src |-> 1],
      [date |-> DateStr(20, ".", 3, ".", 2024), items |-> <<1>>, src |-> 2],
      [date |-> DateStr(10, ".", 2, ".", 2024), items |-> <<1, 2>>, src |-> 3],
      [date |-> DateStr(7, ".", 1, ".", 2024), items |-> <<1>>, src |-> 4],
      [date |-> DateStr(15, ".", 3, "/", 2024), items |-> <<1>>, src |-> 5] }

-----------------------------------------------------------------------------
(* The script: main(), run again and again against the remote listing. *)

Init ==
    /\ pc = "idle"
    /\ wb = <<>>
    /\ disk = <<>>
    /\ remote = <<>>
    /\ local = {}
    /\ cutoff = Epoch
    /\ plan = <<>>
    /\ texts = <<>>
    /\ parsed = <<>>
    /\ bucket = <<>>
    /\ outcome = "none"
    /\ saveFailed = FALSE
    /\ prevWb = <<>>
    /\ runs = 0

\* a new receipt appears in the remote folder
Upload ==
    /\ pc = "idle"
    /\ \E f \in PipelineFiles :
        /\ \A i \in 1..Len(remote) : remote[i] # f
        /\ remote' = Append(remote, f)
    /\ UNCHANGED <<pc, wb, disk, local, cutoff, plan, texts, parsed, bucket,
                   outcome, saveFailed, prevWb, runs>>

\* excel = ExcelDataDumper()
StartRun ==
    /\ pc = "idle"
    /\ runs < MaxRuns
    /\ LET opened == open_workbook(disk)
       IN  wb' = opened.wb /\ disk' = opened.disk
    /\ pc' = "opened"
    /\ runs' = runs + 1
    /\ outcome' = "none"
    /\ saveFailed' = FALSE
    /\ UNCHANGED <<remote, local, cutoff, plan, texts, parsed, bucket, prevWb>>

\* date_to_compare = excel.latest_grocery_date()
LatestGroceryDate ==
    /\ pc = "opened"
    /\ cutoff' = latest_grocery_date(wb)
    /\ pc' = "download"
    /\ UNCHANGED <<wb, disk, remote, local, plan, texts, parsed, bucket,
                   outcome, saveFailed, prevWb, runs>>

\* drive.download(creds, date_to_compare), and sys.exit when it returns nothing
Download ==
    /\ pc = "download"
    /\ LET items_to_download == validate_to_download(remote, cutoff, local)
       IN  /\ plan' = items_to_download
           /\ local' = local \cup {items_to_download[i].name : i \in 1..Len(items_to_download)}
           /\ IF items_to_download = <<>>
              THEN pc' = "idle" /\ outcome' = "SystemExit"
              ELSE pc' = "ocr" /\ outcome' = outcome
    /\ UNCHANGED <<wb, disk, remote, cutoff, texts, parsed, bucket, saveFailed, prevWb, runs>>

\* get_text_from_pdf, create_txt, delete_local_files
ProcessPdfs ==
    /\ pc = "ocr"
    /\ texts' = [i \in 1..Len(plan) |-> plan[i].text]
    /\ LET staged == local \cup {StagedTxtName(plan[i].name) : i \in 1..Len(plan)}
       IN  local' = {n \in staged : ~EndsWith(n, ".txt") /\ ~EndsWith(n, ".pdf")}
    /\ pc' = "parse"
    /\ UNCHANGED <<wb, disk, remote, cutoff, plan, parsed, bucket, outcome,
                   saveFailed, prevWb, runs>>

\* parsed_data = data_parser.parse_data(data_strings)
ParseData ==
    /\ pc = "parse"
    /\ LET data == parse_data_from_pdf(texts)
           data_by_month == parse_data(texts)
       IN  /\ parsed' = data.val
           /\ bucket' = data_by_month.val
           /\ IF data_by_month.err # "none"
              THEN pc' = "idle" /\ outcome' = data_by_month.err
              ELSE pc' = "insert" /\ outcome' = outcome
    /\ UNCHANGED <<wb, disk, remote, local, cutoff, plan, texts, saveFailed, prevWb, runs>>

\* excel.insert_data(parsed_data), the last statement of main
InsertData ==
    /\ pc = "insert"
    /\ \E locked \in BOOLEAN :
        LET done == insert_data(wb, disk, bucket, locked)
        IN  /\ wb' = done.wb
            /\ disk' = done.disk
            /\ outcome' = IF done.err = "none" THEN "ok" ELSE done.err
            /\ saveFailed' = (locked /\ first_sheet_rename(wb, SortedKeys(DOMAIN bucket)).err = "none")
    /\ prevWb' = wb
    /\ pc' = "idle"
    /\ UNCHANGED <<remote, local, cutoff, plan, texts, parsed, bucket, runs>>

Next ==
    \/ Upload
    \/ StartRun
    \/ LatestGroceryDate
    \/ Download
    \/ ProcessPdfs
    \/ ParseData
    \/ InsertData

Spec == Init /\ [][Next]_vars

-----------------------------------------------------------------------------
(* validate_to_download on its own. *)

InitPlan ==
    /\ pc = "plan"
    /\ remote \in DistinctSeqsUpTo(PlanFiles, MaxListing)
    /\ cutoff \in PlanCutoffs
    /\ local \in SUBSET PlanLocalNames
    /\ wb = <<>> /\ disk = <<>> /\ plan = <<>> /\ texts = <<>> /\ parsed = <<>>
    /\ bucket = <<>> /\ outcome = "none" /\ saveFailed = FALSE /\ prevWb = <<>> /\ runs = 0

PlanValidate ==
    /\ pc = "plan"
    /\ plan' = validate_to_download(remote, cutoff, local)
    /\ pc' = "planned"
    /\ outcome' = "ok"
    /\ UNCHANGED <<wb, disk, remote, local, cutoff, texts, parsed, bucket,
                   saveFailed, prevWb, runs>>

NextPlan == PlanValidate

SpecPlan == InitPlan /\ [][NextPlan]_vars

-----------------------------------------------------------------------------
(* The parser on its own: parse_data_from_pdf, then assign_to_months. *)

InitParse ==
    /\ pc = "parse"
    /\ \E raw \in SeqsUpTo(ParseTexts, MaxBatch) :
        /\ raw # <<>>
        /\ texts = [i \in 1..Len(raw) |-> [raw[i] EXCEPT !.src = i]]
    /\ wb = <<>> /\ disk = <<>> /\ remote = <<>> /\ local = {} /\ cutoff = Epoch
    /\ plan = <<>> /\ parsed = <<>> /\ bucket = <<>> /\ outcome = "none"
    /\ saveFailed = FALSE /\ prevWb = <<>> /\ runs = 0

ParseFromPdf ==
    /\ pc = "parse"
    /\ LET data == parse_data_from_pdf(texts)
       IN  /\ parsed' = data.val
           /\ IF data.err # "none"
              THEN pc' = "raised" /\ outcome' = data.err
              ELSE pc' = "assign" /\ outcome' = outcome
    /\ UNCHANGED <<wb, disk, remote, local, cutoff, plan, texts, bucket,
                   saveFailed, prevWb, runs>>

AssignToMonths ==
    /\ pc = "assign"
    /\ LET data_by_month == assign_to_months(parsed)
       IN  /\ bucket' = data_by_month.val
           /\ IF data_by_month.err # "none"
              THEN pc' = "raised" /\ outcome' = data_by_month.err
              ELSE pc' = "assigned" /\ outcome' = "ok"
    /\ UNCHANGED <<wb, disk, remote, local, cutoff, plan, texts, parsed,
                   saveFailed, prevWb, runs>>

NextParse == ParseFromPdf \/ AssignToMonths

SpecParse == InitParse /\ [][NextParse]_vars

-----------------------------------------------------------------------------
(* The ledger on its own: each run opens the saved workbook, as main does,  *)
(* and hands insert_data a bucket of any of the documents. The bucket is    *)
(* never empty: main exits before insert_data when nothing was downloaded.  *)

InitLedger ==
    /\ pc = "ledger"
    /\ wb = NewWorkbook
    /\ disk = Written(NewWorkbook)
    /\ remote = <<>> /\ local = {} /\ cutoff = Epoch /\ plan = <<>> /\ texts = <<>>
    /\ parsed = <<>> /\ bucket = <<>> /\ outcome = "none" /\ saveFailed = FALSE
    /\ prevWb = <<>> /\ runs = 0

LedgerRun ==
    /\ pc = "ledger"
    /\ runs < MaxRuns
    /\ \E data \in DistinctSeqsUpTo(LedgerDocs, MaxBatch) \ {<<>>}, locked \in BOOLEAN :
        LET opened == open_workbook(disk)
            data_by_month == assign_to_months(data).val
            done == insert_data(opened.wb, opened.disk, data_by_month, locked)
        IN  /\ parsed' = data
            /\ bucket' = data_by_month
            /\ prevWb' = opened.wb
            /\ cutoff' = latest_grocery_date(opened.wb)
            /\ wb' = done.wb
            /\ disk' = done.disk
            /\ outcome' = IF done.err = "none" THEN "ok" ELSE done.err
            /\ saveFailed' = (locked /\ first_sheet_rename(opened.wb, SortedKeys(DOMAIN data_by_month)).err = "none")
    /\ runs' = runs + 1
    /\ UNCHANGED <<pc, remote, local, plan, texts>>

NextLedger == LedgerRun

SpecLedger == InitLedger /\ [][NextLedger]_vars

-----------------------------------------------------------------------------
(* Properties. *)

\* the positions <<sheet, row>> of the rows of kind k in a workbook
RowsOfKind(book, k) ==
    {p \in UNION {{<<i, r>> : r \in 1..Len(book[i].rows)} : i \in 1..Len(book)} :
        book[p[1]].rows[p[2]].k = k}

\* the date rows (one per block) of a workbook that stem from document id
BlocksFrom(book, id) == {p \in RowsOfKind(book, "date") : book[p[1]].rows[p[2]].src = id}

\* C1: across the runs of the script, no remote document is recorded in the
\* saved ledger more than once: at most one block stems from each document.
C1_NoDocumentRecordedTwice ==
    \A f \in PipelineFiles : Cardinality(BlocksFrom(disk, f.id)) <= 1

\* C2: after insert_data has appended a non-empty bucket, latest_grocery_date
\* returns a value greater than or equal to the one it returned before.
C2_CutoffNeverDecreases ==
    (pc = "ledger" /\ runs > 0 /\ outcome = "ok" /\ parsed # <<>>)
        => DtLeq(latest_grocery_date(prevWb), latest_grocery_date(wb))

\* the date of a file name read as the number 20YYMMDD, and a cutoff likewise
NameDateNumber(name) == 20000000 + Num(name.prefix)
CutoffNumber(c) == c[1] * 10000 + c[2] * 100 + c[3]

\* a name with its extension .pdf, the last piece, replaced by .txt
WithTxtExtension(name) ==
    IF EndsWith(name, ".pdf")
    THEN [name EXCEPT !.rest = SubSeq(@, 1, Len(@) - 1) \o <<".txt">>]
    ELSE name

\* a listed file the plan has to hold: dated strictly after the cutoff, and
\* its name with .txt for .pdf not among the local names
Wanted(f) ==
    /\ NameDateNumber(f.name) > CutoffNumber(cutoff)
    /\ WithTxtExtension(f.name) \notin local

PositionInListing(f) == CHOOSE j \in 1..Len(remote) : remote[j] = f

Receipt240310 == RemoteFile(1, FileName(2024, 3, 10, "_receipt", ".pdf"), <<>>, <<>>)

C4_PriorRowsUntouched ==
    (pc = "ledger" /\ runs > 0) =>
        \A i \in 1..Len(prevWb) :
            /\ i <= Len(wb) /\ i <= Len(disk)
            /\ Len(prevWb[i].rows) <= Len(wb[i].rows)
            /\ Len(prevWb[i].rows) <= Len(disk[i].rows)
            /\ \A r \in 1..Len(prevWb[i].rows) :
                wb[i].rows[r] = prevWb[i].rows[r] /\ disk[i].rows[r] = prevWb[i].rows[r]

\* C4's case: a second run has appended blocks to a sheet that held rows, and
\* the save has written them
C4_Witness ==
    /\ pc = "ledger" /\ runs = 2 /\ outcome = "ok" /\ ~saveFailed
    /\ \E i \in 1..Len(prevWb) :
        /\ prevWb[i].rows # <<>>
        /\ Len(disk[i].rows) > Len(prevWb[i].rows) + 2

\* C5: handle_sheets renames a sheet only when it is the only sheet and holds
\* no rows, so a sheet that holds rows keeps its name, and afterwards every
\* requested period key names exactly one sheet.
C5_PopulatedSheetKeepsName ==
    (pc = "ledger" /\ runs > 0) =>
        /\ \A i \in 1..Len(prevWb) :
            wb[i].title # prevWb[i].title => (Len(prevWb) = 1 /\ prevWb[1].rows = <<>>)
        /\ outcome = "ok" =>
            \A k \in DOMAIN bucket : Cardinality({i \in 1..Len(wb) : wb[i].title = k}) = 1

\* the next row with cells after row r of sheet ws, 0 when there is none
NextUsedRow(ws, r) ==
    LET later == {q \in (r + 1)..Len(ws.rows) : HasCells(ws.rows[q])}
    IN  IF later = {} THEN 0 ELSE CHOOSE q \in later : \A o \in later : q <= o

\* C6: in every sheet exactly two blank rows lie between the summary row of a
\* block and the date row of the block after it.
C6_TwoBlankRowsBetweenBlocks ==
    \A p \in RowsOfKind(wb, "sum") :
        LET q == NextUsedRow(wb[p[1]], p[2])
        IN  q # 0 => q = p[2] + 3

\* the documents of a batch in which a date is found, as parsed entries
Dated(documents) ==
    LET found == SelectSeq(documents, LAMBDA doc : doc.date # <<>>)
    IN  [i \in 1..Len(found) |->
            [date |-> found[i].date, items |-> found[i].items, src |-> found[i].src]]

\* C7: a batch that holds a text without a date match is still parsed: the
\* call returns the entries of the other documents, in their order.
C7_UndatedDocumentIsDropped ==
    (pc \in {"assign", "assigned", "raised"} /\ \E i \in 1..Len(texts) : texts[i].date = <<>>)
        => (outcome # "AttributeError" /\ parsed = Dated(texts))

\* C8: a save that fails on a locked file ends the run as failed, leaves the
\* saved ledger as it was, and the workbook in memory still holds the new
\* content, so that saving again persists it.
C8_LockedSaveIsReported ==
    (pc = "idle" /\ saveFailed) =>
        /\ outcome \notin {"ok", "none"}
        /\ disk = Written(prevWb)
        /\ \A i \in 1..Len(parsed) : BlocksFrom(Written(wb), parsed[i].src) # {}

\* the month and the year a date of the date grammar names
MonthAndYear(date) == <<Num(SubSeq(date, 4, 5)), Num(SubSeq(date, 7, 10))>>

\* C9: assign_to_months returns one key for each month and year that occurs,
\* each key holds the documents of its month and year, and every document is
\* in exactly one bucket, once.
C9_GroupedByMonthAndYear ==
    (pc \in {"assigned", "raised"} /\ outcome # "AttributeError") =>
        /\ outcome = "ok"
        /\ Cardinality(DOMAIN bucket)
             = Cardinality({MonthAndYear(parsed[i].date) : i \in 1..Len(parsed)})
        /\ \A k \in DOMAIN bucket : \A i, j \in 1..Len(bucket[k]) :
            MonthAndYear(bucket[k][i].date) = MonthAndYear(bucket[k][j].date)
        /\ \A i \in 1..Len(parsed) :
            Cardinality({x \in UNION {{<<k, n>> : n \in 1..Len(bucket[k])} : k \in DOMAIN bucket} :
                            bucket[x[1]][x[2]] = parsed[i]}) = 1

\* the rows of the block that ends with the summary row r of sheet ws which
\* hold a line item: the item rows after the block's header row
ItemRowsOfBlock(ws, r) ==
    LET header == CHOOSE h \in 1..(r - 1) :
                      ws.rows[h].k = "header"
                      /\ \A o \in (h + 1)..(r - 1) : ws.rows[o].k # "header"
    IN  {q \in (header + 1)..(r - 1) : ws.rows[q].k = "item"}

\* the rows a reference B{s}:B{e} covers: a spreadsheet reads a reference
\* whose corners are swapped as the same rectangle
RangeRows(s, e) == IF s <= e THEN s..e ELSE e..s

\* C10: the range start_row..end_row of every summary row is not inverted and
\* covers exactly the rows of the line items of its block.
C10_SumRangeIsItemRows ==
    \A p \in RowsOfKind(wb, "sum") :
        LET ws == wb[p[1]]
            row == ws.rows[p[2]]
        IN  row.s <= row.e /\ RangeRows(row.s, row.e) = ItemRowsOfBlock(ws, p[2])

====
